---- MODULE Spec2Model ----
(***************************************************************************)
(* King Phisher server: the authorized GraphQL query layer                 *)
(* (king_phisher/server/graphql.py).                                        *)
(*                                                                         *)
(* The model covers the authorization middleware, the filter and sort      *)
(* compiler of SQLAlchemyConnectionField, the connection resolver and the  *)
(* single-entity lookup of SQLAlchemyObjectType.  One action handles one   *)
(* whole request; the variables hold the request and everything the        *)
(* handler did while serving it (permission-predicate calls, inner         *)
(* resolver calls, database operations) together with its outcome.         *)
(*                                                                         *)
(* Further specifications over the same state cover the connection-type    *)
(* cache under concurrent callers (SpecFactory), pagination of a           *)
(* connection (SpecPage), the root query fields and Schema.execute          *)
(* (SpecRoot), the filter compiler over all operators (SpecFilter) and     *)
(* the server process of king_phisher/server/__main__.py (SpecMain).       *)
(*                                                                         *)
(* Strings that the code inspects character by character (GraphQL field    *)
(* names, column names) are sequences of one-character strings.            *)
(***************************************************************************)
EXTENDS Integers, Sequences, FiniteSets, TLC

VARIABLES
    req,          \* the request being served: operation and its arguments
    result,       \* its outcome: a value, or the error raised
    accessCalls,  \* calls made to model.session_has_read_prop_access
    nextCalls,    \* invocations of the inner resolver (middleware chain)
    dbOps,        \* operations executed against the database (count, slice, first)
    geoipCalls,   \* calls made to geoip.lookup
    connection_types,  \* SQLAlchemyConnectionField.__connection_types: name -> type
    callers,      \* the threads inside connection_factory: position and locals
    types_created,     \* how many connection types type(...) has built so far
    config,       \* the loaded server configuration
    pc,           \* the position of the main thread in main() / build_and_run()
    log_file,     \* the local variable log_file of main()
    handlers,     \* the disposition of each signal
    shutdown_threads   \* threads started with target=server.shutdown

\* the state of a GraphQL request
gqlVars == <<req, result, accessCalls, nextCalls, dbOps, geoipCalls>>
\* the state of the connection-type cache and of its callers
factoryVars == <<connection_types, callers, types_created>>
\* the state of the server process
mainVars == <<config, pc, log_file, handlers, shutdown_threads>>

vars == <<req, result, accessCalls, nextCalls, dbOps, geoipCalls,
          connection_types, callers, types_created,
          config, pc, log_file, handlers, shutdown_threads>>

----------------------------------------------------------------------------
(* Bounds of the model *)

\* filter nodes plus sort entries of one connection request
MaxArgs == 3

----------------------------------------------------------------------------
(* Character strings *)

UpperCase == {"I", "D", "U", "S", "E", "R", "X", "Y"}
LowerCase == {"i", "d", "u", "s", "e", "r", "x", "y"}

\* str.lower() on one character
lower(c) ==
    CASE c = "I" -> "i" [] c = "D" -> "d" [] c = "U" -> "u" [] c = "S" -> "s"
      [] c = "E" -> "e" [] c = "R" -> "r" [] c = "X" -> "x" [] c = "Y" -> "y"
      [] OTHER -> c

\* str.upper() on one character
upper(c) ==
    CASE c = "i" -> "I" [] c = "d" -> "D" [] c = "u" -> "U" [] c = "s" -> "S"
      [] c = "e" -> "E" [] c = "r" -> "R" [] c = "x" -> "X" [] c = "y" -> "Y"
      [] OTHER -> c

\* smoke_zephyr.utilities.parse_case_camel_to_snake:
\*   re.sub('((?<=[a-z0-9])[A-Z]|(?!^)[A-Z](?=[a-z]))', r'_\1', camel).lower()
\* an underscore goes before an upper-case letter that follows a lower-case
\* letter, or that is not first and is followed by a lower-case letter.
RECURSIVE camel_to_snake_from(_, _)
camel_to_snake_from(camel, k) ==
    IF k > Len(camel) THEN <<>>
    ELSE LET c == camel[k]
             matches ==
                 /\ c \in UpperCase
                 /\ \/ k > 1 /\ camel[k - 1] \in LowerCase
                    \/ k > 1 /\ k < Len(camel) /\ camel[k + 1] \in LowerCase
         IN (IF matches THEN <<"_", lower(c)>> ELSE <<lower(c)>>)
                \o camel_to_snake_from(camel, k + 1)

parse_case_camel_to_snake(camel) == camel_to_snake_from(camel, 1)

\* graphene's to_camel_case (auto_camelcase): the components after the first
\* underscore-separated one are capitalised and the underscores dropped.
RECURSIVE to_camel_from(_, _)
to_camel_from(snake, k) ==
    IF k > Len(snake) THEN <<>>
    ELSE IF snake[k] = "_" /\ k < Len(snake)
         THEN <<upper(snake[k + 1])>> \o to_camel_from(snake, k + 2)
         ELSE <<snake[k]>> \o to_camel_from(snake, k + 1)

to_camel_case(snake) == to_camel_from(snake, 1)

\* '_' in gql_field
HasUnderscore(s) == \E k \in 1..Len(s) : s[k] = "_"

----------------------------------------------------------------------------
(* The entity model: its columns, its rows, the caller sessions *)

col_id      == <<"i", "d">>
col_user_id == <<"u", "s", "e", "r", "_", "i", "d">>

\* model.columns()
columns == {col_id, col_user_id}

\* the GraphQL field names of the entity type (the schema is built with
\* auto_camelcase on)
GqlFieldNames == {to_camel_case(c) : c \in columns}

\* the rows of the model's table: every combination of small column values
Table == {[id |-> i, user_id |-> u] : i \in {0, 1, 2}, u \in {0, 1, 2}}

\* row[column]
ColumnValue(row, col) == IF col = col_id THEN row.id ELSE row.user_id

\* entity instances that a resolver may receive as its root
Instances == {"campaign1", "campaign2"}
\* the instance argument of a class-level check
NoInstance == "None"

\* an authenticated session: the properties and the instances it may not read
Sessions == {[props |-> p, rows |-> r] : p \in SUBSET columns, r \in SUBSET {"campaign1"}}
\* sessions that differ only in the properties they deny
ClassSessions == {s \in Sessions : s.rows = {}}

\* a Python dictionary is a function whose domain is its keys
EmptyDict == <<>>
HasKey(d, k) == k \in DOMAIN d
\* d.get(k, default)
Get(d, k, default) == IF k \in DOMAIN d THEN d[k] ELSE default
\* the dictionaries in which a key is absent or has one of some values
Optional(key, values) == {EmptyDict} \cup {[k \in {key} |-> v] : v \in values}
\* bool(d.get(k)) for a value that is a list, a string or a dictionary
Truthy(d, k) == k \in DOMAIN d /\ d[k] # <<>>

\* info.context: a dictionary that may hold the key rpc_session
ContextOf(s) == [rpc_session |-> s]
Contexts == {EmptyDict} \cup {ContextOf(s) : s \in Sessions}
ClassContexts == {EmptyDict} \cup {ContextOf(s) : s \in ClassSessions}

\* model.session_has_read_prop_access(rpc_session, field_name, instance=instance)
session_has_read_prop_access(rpc_session, field_name, instance) ==
    /\ field_name \notin rpc_session.props
    /\ instance = NoInstance \/ instance \notin rpc_session.rows

----------------------------------------------------------------------------
(* AuthorizationMiddleware.info_has_read_prop_access *)

\* Variant: a context without a session is refused instead of let through.
info_access_requires_session(context, field_name, instance) ==
    IF ~HasKey(context, "rpc_session")
    THEN [allowed |-> FALSE, calls |-> <<>>]
    ELSE [allowed |-> session_has_read_prop_access(context.rpc_session, field_name, instance),
          calls   |-> <<[field_name |-> field_name, instance |-> instance]>>]

\* The answer and the calls made to the model's permission predicate.
info_has_read_prop_access(context, field_name, instance) ==
    IF ~HasKey(context, "rpc_session")
    THEN [allowed |-> TRUE, calls |-> <<>>]
    ELSE [allowed |-> session_has_read_prop_access(context.rpc_session, field_name, instance),
          calls   |-> <<[field_name |-> field_name, instance |-> instance]>>]

----------------------------------------------------------------------------
(* SQL expressions and queries (sqlalchemy) *)

\* Python's None as a compiled filter
NoneSql == [kind |-> "none"]

\* comparison_operator(getattr(model, sql_field), value)
Comparison(op, col, value) == [kind |-> "cmp", op |-> op, col |-> col, value |-> value]
\* sqlalchemy.and_(*clauses), sqlalchemy.or_(*clauses): a clause list, also
\* when there are no clauses (never None)
and_(clauses) == [kind |-> "and", clauses |-> clauses]
or_(clauses)  == [kind |-> "or", clauses |-> clauses]

\* operator.eq, ge, gt, le, lt, ne
Compare(op, a, b) ==
    CASE op = "eq" -> a = b
      [] op = "ge" -> a >= b
      [] op = "gt" -> a > b
      [] op = "le" -> a <= b
      [] op = "lt" -> a < b
      [] op = "ne" -> a # b

\* A clause list without clauses renders as an empty string, and a clause
\* that renders empty is left out of the list it is in.
RECURSIVE RendersEmpty(_)
RendersEmpty(e) ==
    /\ e.kind \in {"and", "or"}
    /\ \A k \in 1..Len(e.clauses) : RendersEmpty(e.clauses[k])

\* whether a row satisfies an expression that does not render empty
RECURSIVE Satisfies(_, _)
Satisfies(row, e) ==
    CASE e.kind = "cmp" -> Compare(e.op, ColumnValue(row, e.col), e.value)
      [] e.kind = "and" -> \A k \in 1..Len(e.clauses) :
                               RendersEmpty(e.clauses[k]) \/ Satisfies(row, e.clauses[k])
      [] e.kind = "or"  -> \E k \in 1..Len(e.clauses) :
                               ~RendersEmpty(e.clauses[k]) /\ Satisfies(row, e.clauses[k])

\* the columns an expression names
RECURSIVE ColumnsOf(_)
ColumnsOf(e) ==
    CASE e.kind = "cmp" -> {e.col}
      [] e.kind \in {"and", "or"} -> UNION {ColumnsOf(e.clauses[k]) : k \in 1..Len(e.clauses)}
      [] OTHER -> {}

\* A query: the criteria added with filter() and the terms added with
\* order_by(), over the model's default query or a relationship's query.
DefaultQuery == [base |-> "default", criteria |-> <<>>, order |-> <<>>]
RelationshipQuery == [base |-> "relationship", criteria |-> <<>>, order |-> <<>>]

\* query.filter(sql_filter)
QFilter(query, sql_filter) == [query EXCEPT !.criteria = Append(@, sql_filter)]
\* Variant: the new term goes before the terms already there.
QOrderBy_prepends(query, term) == [query EXCEPT !.order = <<term>> \o @]

\* query.order_by(field)
QOrderBy(query, term) == [query EXCEPT !.order = Append(@, term)]

\* the rows a query selects (a relationship's query holds the rows of one parent)
Selected(query) ==
    {row \in Table :
        /\ query.base = "relationship" => row.user_id = 1
        /\ \A k \in 1..Len(query.criteria) :
               RendersEmpty(query.criteria[k]) \/ Satisfies(row, query.criteria[k])}

\* the columns named by the criteria and the ordering of a query
QueryColumns(query) ==
    UNION {ColumnsOf(query.criteria[k]) : k \in 1..Len(query.criteria)}
        \cup {query.order[k].col : k \in 1..Len(query.order)}

----------------------------------------------------------------------------
(* SQLAlchemyConnectionField: the filter compiler *)
(* A step of the compiler yields an outcome: the error raised ("" when       *)
(* none), the value returned and the permission-predicate calls made on the  *)
(* way.  Each step takes the outcome of the steps before it.                 *)

FilterOperators == {"eq", "ge", "gt", "le", "lt", "ne"}

Raise(error, calls) == [err |-> error, sql |-> NoneSql, calls |-> calls]
Return(sql, calls)  == [err |-> "", sql |-> sql, calls |-> calls]
\* an outcome reached after the calls of the steps before it
After(calls, outcome) == [outcome EXCEPT !.calls = calls \o @]

\* Variant: the comparison is emitted whatever the permission check said.
filter_leaf_unchecked(operator_name, sql_field, value, access) ==
    Return(Comparison(operator_name, sql_field, value), access.calls)

\* lines 243-244: the comparison when the session may read the column, else None
filter_leaf_authorized(operator_name, sql_field, value, access) ==
    IF access.allowed
    THEN Return(Comparison(operator_name, sql_field, value), access.calls)
    ELSE Return(NoneSql, access.calls)

\* Variant: the field is validated by its translation alone, so a name that
\* already has underscores passes.
filter_leaf_accepts_underscore(context, gql_filter, operator_name, sql_field) ==
    IF operator_name \notin FilterOperators
    THEN Raise("invalid operator", <<>>)
    ELSE IF sql_field \notin columns
    THEN Raise("invalid filter field", <<>>)
    ELSE filter_leaf_authorized(operator_name, sql_field, gql_filter.value,
             info_has_read_prop_access(context, sql_field, NoInstance))

\* lines 235-244: the field branch, given the operator name and the column name
filter_leaf(context, gql_filter, operator_name, sql_field) ==
    IF operator_name \notin FilterOperators
    THEN Raise("invalid operator", <<>>)
    ELSE IF HasUnderscore(gql_filter.field) \/ sql_field \notin columns
    THEN Raise("invalid filter field", <<>>)
    ELSE filter_leaf_authorized(operator_name, sql_field, gql_filter.value,
             info_has_read_prop_access(context, sql_field, NoInstance))

\* Variant: the children are joined with and_ under OR as under AND.
filter_branch_always_and(kind, compiled) ==
    IF compiled.err # ""
    THEN Raise(compiled.err, compiled.calls)
    ELSE Return(and_(compiled.list), compiled.calls)

\* sqlalchemy.and_ or or_ of a compiled list, unless a child raised
filter_branch(kind, compiled) ==
    IF compiled.err # ""
    THEN Raise(compiled.err, compiled.calls)
    ELSE Return(IF kind = "and" THEN and_(compiled.list) ELSE or_(compiled.list),
                compiled.calls)

\* the list of the compiled children that are not None
filter_list_join(first, rest) ==
    [err   |-> rest.err,
     list  |-> (IF first.sql = NoneSql THEN <<>> ELSE <<first.sql>>) \o rest.list,
     calls |-> first.calls \o rest.calls]

RECURSIVE __query_filter(_, _), _query_filter_list(_, _)

\* the children after the first, unless the first raised
filter_list_rest(context, first, gql_filters) ==
    IF first.err # ""
    THEN [err |-> first.err, list |-> <<>>, calls |-> first.calls]
    ELSE filter_list_join(first, _query_filter_list(context, gql_filters))

\* [cls.__query_filter(...) for gql_filter in gql_filters] without its None
\* results; the first child that raises ends the compilation
_query_filter_list(context, gql_filters) ==
    IF gql_filters = <<>>
    THEN [err |-> "", list |-> <<>>, calls |-> <<>>]
    ELSE filter_list_rest(context, __query_filter(context, Head(gql_filters)),
                          Tail(gql_filters))

\* lines 225-226
filter_and(context, gql_filter) ==
    IF Truthy(gql_filter, "AND")
    THEN filter_branch("and", _query_filter_list(context, gql_filter.AND))
    ELSE Return(NoneSql, <<>>)

\* Variant: OR replaces what AND compiled instead of being refused.
filter_or_replaces_and(context, gql_filter, before) ==
    IF before.err # "" \/ ~Truthy(gql_filter, "OR")
    THEN before
    ELSE After(before.calls,
               filter_branch("or", _query_filter_list(context, gql_filter.OR)))

\* lines 227-230
filter_or(context, gql_filter, before) ==
    IF before.err # "" \/ ~Truthy(gql_filter, "OR")
    THEN before
    ELSE IF before.sql # NoneSql
    THEN Raise("mutually exclusive", before.calls)
    ELSE After(before.calls,
               filter_branch("or", _query_filter_list(context, gql_filter.OR)))

\* lines 232-245
filter_field(context, gql_filter, before) ==
    IF before.err # "" \/ ~Truthy(gql_filter, "field")
    THEN before
    ELSE IF before.sql # NoneSql
    THEN Raise("mutually exclusive", before.calls)
    ELSE After(before.calls,
               filter_leaf(context, gql_filter, Get(gql_filter, "operator", "eq"),
                           parse_case_camel_to_snake(gql_filter.field)))

\* precedence: AND, OR, field
__query_filter(context, gql_filter) ==
    filter_field(context, gql_filter,
                 filter_or(context, gql_filter, filter_and(context, gql_filter)))

\* the query with the compiled filter applied, unless it is None
apply_filter(query, compiled) ==
    [err   |-> compiled.err,
     query |-> IF compiled.err = "" /\ compiled.sql # NoneSql
               THEN QFilter(query, compiled.sql) ELSE query,
     calls |-> compiled.calls]

_query_filter(context, query, gql_filter) ==
    apply_filter(query, __query_filter(context, gql_filter))

----------------------------------------------------------------------------
(* SQLAlchemyConnectionField: the sort compiler and the query shim *)

\* getattr(model, sql_field) and getattr(model, sql_field).desc()
OrderTerm(col, desc) == [col |-> col, desc |-> desc]

SortOutcome(error, query, calls) == [err |-> error, query |-> query, calls |-> calls]

RECURSIVE query_sort_from(_, _, _, _)

\* Variant: an entry the session may not read raises instead of being skipped.
sort_entry_denied_raises(context, query, gql_sort, k, direction, sql_field, access) ==
    IF ~access.allowed
    THEN SortOutcome("invalid sort field", query, access.calls)
    ELSE IF direction \notin {"aesc", "desc"}
    THEN SortOutcome("invalid sort direction", query, access.calls)
    ELSE After(access.calls,
               query_sort_from(context,
                   QOrderBy(query, OrderTerm(sql_field, direction = "desc")),
                   gql_sort, k + 1))

\* lines 260-268 for the entry at position k, then the entries after it
sort_entry_authorized(context, query, gql_sort, k, direction, sql_field, access) ==
    IF access.allowed /\ direction \notin {"aesc", "desc"}
    THEN SortOutcome("invalid sort direction", query, access.calls)
    ELSE After(access.calls,
               query_sort_from(context,
                   IF access.allowed
                   THEN QOrderBy(query, OrderTerm(sql_field, direction = "desc"))
                   ELSE query,
                   gql_sort, k + 1))

\* lines 255-268 for the entry at position k
sort_entry(context, query, gql_sort, k, field, sql_field) ==
    IF HasUnderscore(field.field) \/ sql_field \notin columns
    THEN SortOutcome("invalid sort field", query, <<>>)
    ELSE sort_entry_authorized(context, query, gql_sort, k,
             Get(field, "direction", "aesc"), sql_field,
             info_has_read_prop_access(context, sql_field, NoInstance))

\* the loop of _query_sort over the entries from position k on
query_sort_from(context, query, gql_sort, k) ==
    IF k > Len(gql_sort)
    THEN SortOutcome("", query, <<>>)
    ELSE sort_entry(context, query, gql_sort, k, gql_sort[k],
                    parse_case_camel_to_snake(gql_sort[k].field))

_query_sort(context, query, gql_sort) == query_sort_from(context, query, gql_sort, 1)

\* lines 275-277: the sort, when given, on the filtered query
shim_sort(context, kwargs, filtered) ==
    IF filtered.err # "" \/ ~Truthy(kwargs, "sort")
    THEN filtered
    ELSE After(filtered.calls, _query_sort(context, filtered.query, kwargs.sort))

\* query_shim: the filter, when given, and then the sort, when given
query_shim(context, query, kwargs) ==
    shim_sort(context, kwargs,
              IF Truthy(kwargs, "filter")
              THEN _query_filter(context, query, kwargs.filter)
              ELSE SortOutcome("", query, <<>>))

\* SQLAlchemyConnectionField.get_query: the model's default query, shimmed
get_query(context, kwargs) == query_shim(context, DefaultQuery, kwargs)

\* A database operation executed on a query.
DbOp(op, query) == [op |-> op, query |-> query]

\* lines 194-212 for a query: count() and the slice
connection_of_query(shimmed) ==
    IF shimmed.err # ""
    THEN [result |-> [status |-> "error", error |-> shimmed.err],
          calls  |-> shimmed.calls,
          ops    |-> <<>>]
    ELSE [result |-> [status |-> "ok", total |-> Cardinality(Selected(shimmed.query)),
                      iterable |-> [kind |-> "query", query |-> shimmed.query]],
          calls  |-> shimmed.calls,
          ops    |-> <<DbOp("count", shimmed.query), DbOp("slice", shimmed.query)>>]

\* Variant: the query the inner resolver returned is dropped and the model's
\* default query is used in its place.
connection_resolver_drops_query(context, iterable, kwargs) ==
    IF iterable.kind = "list"
    THEN [result |-> [status |-> "ok", total |-> Len(iterable.items),
                      iterable |-> iterable],
          calls  |-> <<>>,
          ops    |-> <<>>]
    ELSE connection_of_query(query_shim(context, DefaultQuery, kwargs))

\* SQLAlchemyConnectionField.connection_resolver, given what the inner
\* resolver returned: the error raised, or the connection (its total and
\* iterable), with the permission calls and the database operations made.
connection_resolver(context, iterable, kwargs) ==
    IF iterable.kind = "list"
    THEN [result |-> [status |-> "ok", total |-> Len(iterable.items),
                      iterable |-> iterable],
          calls  |-> <<>>,
          ops    |-> <<>>]
    ELSE connection_of_query(
             query_shim(context,
                        IF iterable.kind = "none" THEN DefaultQuery ELSE iterable.query,
                        kwargs))

----------------------------------------------------------------------------
(* SQLAlchemyConnectionField.connection_resolver: the relay slice *)
(* connection_from_list_slice is called with slice_start=0 and with        *)
(* list_length and list_slice_length both _len (lines 200-209).            *)

\* the order in which the table stores its rows
StorageBefore(a, b) == a.id < b.id \/ (a.id = b.id /\ a.user_id < b.user_id)

\* whether row a comes before row b under the ORDER BY terms from position
\* k on; rows that tie on every term come in storage order
RECURSIVE OrderedBefore(_, _, _, _)
OrderedBefore(order, k, a, b) ==
    IF k > Len(order) THEN StorageBefore(a, b)
    ELSE IF ColumnValue(a, order[k].col) = ColumnValue(b, order[k].col)
         THEN OrderedBefore(order, k + 1, a, b)
         ELSE IF order[k].desc
              THEN ColumnValue(a, order[k].col) > ColumnValue(b, order[k].col)
              ELSE ColumnValue(a, order[k].col) < ColumnValue(b, order[k].col)

\* the rows a query returns, in order
Fetch(query) ==
    [p \in 1..Cardinality(Selected(query)) |->
        CHOOSE row \in Selected(query) :
            Cardinality({o \in Selected(query) : OrderedBefore(query.order, 1, o, row)})
                = p - 1]

Min2(a, b) == IF a < b THEN a ELSE b
Max2(a, b) == IF a > b THEN a ELSE b

\* seq[start:stop] for start, stop >= 0: on a list, and on a Query (OFFSET
\* start LIMIT stop - start)
Slice(seq, start, stop) == SubSeq(seq, start + 1, Min2(stop, Len(seq)))

\* graphql_relay: a cursor is the text 'arrayconnection:' followed by the
\* offset in decimal; a text sent by a client may carry no number there
CursorPrefix == "arrayconnection:"
offset_to_cursor(offset) == [prefix |-> CursorPrefix, is_int |-> TRUE, tail |-> offset]

\* get_offset_with_default(cursor, default_offset): cursor_to_offset drops
\* the prefix and parses what follows; what does not parse gives the default
get_offset_with_default(args, key, default_offset) ==
    IF ~HasKey(args, key) THEN default_offset
    ELSE IF ~args[key].is_int THEN default_offset
    ELSE args[key].tail

\* start_offset and end_offset of connection_from_list_slice
page_start_before_last(args) ==
    Max2(Max2(0 - 1, get_offset_with_default(args, "after", 0 - 1)), 0 - 1) + 1

page_end(args, list_length) ==
    LET end_offset == Min2(Min2(list_length,
                                get_offset_with_default(args, "before", list_length)),
                           list_length)
    IN  IF HasKey(args, "first")
        THEN Min2(end_offset, page_start_before_last(args) + args.first)
        ELSE end_offset

\* Variant: 'last' is counted from the end of the whole list instead of from
\* the end of the window left by the cursors and 'first'.
page_start_last_from_list_end(args, list_length) ==
    IF HasKey(args, "last")
    THEN Max2(page_start_before_last(args), list_length - args.last)
    ELSE page_start_before_last(args)

page_start(args, list_length) ==
    IF HasKey(args, "last")
    THEN Max2(page_start_before_last(args),
              page_end(args, list_length) - args.last)
    ELSE page_start_before_last(args)

\* the edges of connection_from_list_slice(list_slice, args, slice_start=0,
\* list_length=_len, list_slice_length=_len)
connection_from_list_slice(list_slice, args, list_length) ==
    LET start_offset == page_start(args, list_length)
        end_offset == page_end(args, list_length)
        _slice == Slice(list_slice, Max2(start_offset, 0),
                        Max2(list_length - (list_length - end_offset), 0))
    IN  [i \in 1..Len(_slice) |->
            [node |-> _slice[i], cursor |-> offset_to_cursor(start_offset + i - 1)]]

\* the elements of the iterable of a connection, in order
Elements(iterable) ==
    IF iterable.kind = "list" THEN iterable.items ELSE Fetch(iterable.query)

\* lines 200-212: the connection with its edges, its iterable and its length
connection_with_edges(connection, kwargs) ==
    IF connection.status # "ok" THEN connection
    ELSE [status |-> "ok", total |-> connection.total,
          iterable |-> connection.iterable, length |-> connection.total,
          edges |-> connection_from_list_slice(Elements(connection.iterable),
                                               kwargs, connection.total)]

----------------------------------------------------------------------------
(* SQLAlchemyObjectType.get_query: the single-entity lookup *)

\* for field, value in kwargs.items(): query.filter(getattr(model, field) == value)
RECURSIVE object_get_query_from(_, _, _)
object_get_query_from(query, items, k) ==
    IF k > Len(items) THEN query
    ELSE object_get_query_from(
             QFilter(query, Comparison("eq", items[k][1], items[k][2])), items, k + 1)

object_get_query(items) == object_get_query_from(DefaultQuery, items, 1)

----------------------------------------------------------------------------
(* AuthorizationMiddleware.resolve *)

\* isinstance(root, db_models.Base)
IsEntity(root) == root \in Instances

\* None as the value of a field
NoneValue == "None"

\* Variant: the inner resolver is invoked also when the read is denied.
resolve_without_gate(context, root, field_name, kwargs, next_value) ==
    LET access == info_has_read_prop_access(context, field_name, root)
        call == [root |-> root, field_name |-> field_name, kwargs |-> kwargs]
    IN  [value |-> next_value, next_calls |-> <<call>>,
         calls |-> IF IsEntity(root) THEN access.calls ELSE <<>>]

\* The value returned, the invocations of next_ and the permission calls.
\* info.field_name is the name of the field in the GraphQL document.
resolve(context, root, field_name, kwargs, next_value) ==
    LET access == info_has_read_prop_access(context, field_name, root)
        call == [root |-> root, field_name |-> field_name, kwargs |-> kwargs]
    IN  IF IsEntity(root) /\ ~access.allowed
        THEN [value |-> NoneValue, next_calls |-> <<>>, calls |-> access.calls]
        ELSE [value |-> next_value, next_calls |-> <<call>>,
              calls |-> IF IsEntity(root) THEN access.calls ELSE <<>>]

----------------------------------------------------------------------------
(* SQLAlchemyConnectionField.connection_factory: the connection-type cache *)
(* The class attribute __connection_types is shared by every thread; the    *)
(* interpreter may switch threads between any two steps of the method.      *)

\* the threads that call connection_factory
MaxCallers == 3
Threads == 1..MaxCallers

\* the node types a connection is built for
NodeTypes == {"Campaign", "User"}

\* line 175: node.__name__ + 'Connection'
connection_name(node) == <<node, "Connection">>

\* lines 178-185: type(...) builds a new class object on every call; the
\* serial tells two classes of the same name apart
new_connection_type(name, created) ==
    [name |-> name, serial |-> Cardinality(created) + 1]

\* line 175: a thread enters connection_factory(node)
factory_enter(node) == [pc |-> "check", node |-> node, name |-> connection_name(node)]

\* line 176: if name in cls.__connection_types
factory_check(caller, types) ==
    [caller EXCEPT !.pc = IF HasKey(types, caller.name) THEN "read" ELSE "build"]

\* line 177: return cls.__connection_types[name]
factory_read(caller, types) ==
    [pc |-> "done", node |-> caller.node, name |-> caller.name,
     returned |-> types[caller.name]]

\* lines 178-185: the local connection_type
factory_build(caller, created) ==
    [pc |-> "store", node |-> caller.node, name |-> caller.name,
     connection_type |-> new_connection_type(caller.name, created)]

\* line 186: cls.__connection_types[name] = connection_type
factory_store(caller, types) ==
    [n \in DOMAIN types \cup {caller.name} |->
        IF n = caller.name THEN caller.connection_type ELSE types[n]]

\* line 187: return connection_type
factory_return(caller) ==
    [pc |-> "done", node |-> caller.node, name |-> caller.name,
     returned |-> caller.connection_type]

----------------------------------------------------------------------------
(* Schema.execute and the root query fields plugins and geoloc, as defined  *)
(* in graphql.py and again in graphql/schema.py                             *)

\* the two modules that define Query and Schema
Modules == {"graphql.py", "graphql/schema.py"}

\* the names bound at module level that the resolvers look up
ModuleGlobals(module) ==
    IF module = "graphql.py"
    THEN {"AuthorizationMiddleware", "GeoLocation", "Plugin", "PluginConnection",
          "Database", "Query", "Schema", "version"}
    ELSE {"version", "gql_middleware", "gql_types", "graphene", "Query", "Schema"}

\* Variant: the authorization middleware is appended after the caller's.
execute_appends(kwargs) ==
    [k \in DOMAIN kwargs \cup {"context_value", "middleware"} |->
        IF k = "middleware"
        THEN Get(kwargs, "middleware", <<>>) \o <<"AuthorizationMiddleware">>
        ELSE IF k = "context_value" THEN Get(kwargs, "context_value", EmptyDict)
        ELSE kwargs[k]]

\* Schema.execute: the keyword arguments handed to graphene.Schema.execute
execute(kwargs) ==
    [k \in DOMAIN kwargs \cup {"context_value", "middleware"} |->
        IF k = "middleware"
        THEN <<"AuthorizationMiddleware">> \o Get(kwargs, "middleware", <<>>)
        ELSE IF k = "context_value" THEN Get(kwargs, "context_value", EmptyDict)
        ELSE kwargs[k]]

\* Plugin.from_plugin: the projection of a plugin (name and version stand
\* for the six fields copied; the plugin's other attributes are not copied)
from_plugin(plugin) == [name |-> plugin.name, version |-> plugin.version]

\* sorted(plugin_manager, key=lambda i: i[0]): the (identifier, plugin) pairs
\* by ascending identifier, pairs of equal identifier in their given order
sorted_by_identifier(pairs) ==
    LET rank(k) == Cardinality({j \in 1..Len(pairs) :
                       \/ pairs[j][1] < pairs[k][1]
                       \/ (pairs[j][1] = pairs[k][1] /\ j < k)})
    IN  [p \in 1..Len(pairs) |-> pairs[CHOOSE k \in 1..Len(pairs) : rank(k) = p - 1]]

\* Query.resolve_plugins in a module; the comprehension looks the name
\* Plugin up in the module's globals once per pair
resolve_plugins(module, context) ==
    LET plugin_manager == Get(context, "plugin_manager", <<>>)
        pairs == sorted_by_identifier(plugin_manager)
    IN  IF Len(pairs) > 0 /\ "Plugin" \notin ModuleGlobals(module)
        THEN [status |-> "error", error |-> "NameError"]
        ELSE [status |-> "ok",
              edges |-> [k \in 1..Len(pairs) |-> from_plugin(pairs[k][2])]]

\* PluginConnection.resolve_total
resolve_total(context) == Len(Get(context, "plugin_manager", <<>>))

\* the plugins field with its total: the listing, then total on the connection
plugins_connection(module, context) ==
    IF resolve_plugins(module, context).status # "ok"
    THEN resolve_plugins(module, context)
    ELSE [status |-> "ok", edges |-> resolve_plugins(module, context).edges,
          total |-> resolve_total(context)]

\* IP addresses as the texts a client or a row may hold
PrivateAddresses == {"10.0.0.1", "192.168.1.1"}
PublicAddresses == {"8.8.8.8", "1.1.1.1"}
\* ipaddress.ip_address(text) raises ValueError for any other text
ParsesAsAddress(text) == text \in PrivateAddresses \cup PublicAddresses
\* ip_address.is_private
is_private(text) == text \in PrivateAddresses

\* the outcome of a geoloc resolver: the value or error, and the lookups made
GeoOutcome(status, value, lookups) ==
    [status |-> status, value |-> value, lookups |-> lookups]

\* GeoLocation.from_ip_address, over a GeoIP database (the addresses it knows)
from_ip_address(ip_address, database) ==
    IF ~ParsesAsAddress(ip_address) THEN GeoOutcome("error", "ValueError", <<>>)
    ELSE IF is_private(ip_address) THEN GeoOutcome("ok", NoneValue, <<>>)
    ELSE IF ip_address \notin database
    THEN GeoOutcome("ok", NoneValue, <<ip_address>>)
    ELSE GeoOutcome("ok", [GeoLocation |-> ip_address], <<ip_address>>)

\* Query.resolve_geoloc: kwargs.get('ip') is None
resolve_geoloc(kwargs, database) ==
    IF Get(kwargs, "ip", NoneValue) = NoneValue THEN GeoOutcome("ok", NoneValue, <<>>)
    ELSE from_ip_address(kwargs.ip, database)

\* resolve_visitor_geoloc / resolve_opener_geoloc of an entity: not ip, for
\* a column that holds None or a text
resolve_entity_geoloc(row, column, database) ==
    IF row[column] = NoneValue \/ row[column] = ""
    THEN GeoOutcome("ok", NoneValue, <<>>)
    ELSE from_ip_address(row[column], database)

----------------------------------------------------------------------------
(* The server process: main(), build_and_run() and sig_handler() of        *)
(* king_phisher/server/__main__.py                                          *)

\* the signals build_and_run installs sig_handler for
Signals == {"SIGHUP", "SIGINT", "SIGTERM"}

\* the configuration before ex_load_config has returned
NotLoaded == "not loaded"

\* a local variable that no statement has assigned yet
Unassigned == "unassigned"

\* config.has_section(name)
has_section(configuration, name) == HasKey(configuration, name)

\* the levels _ex_config_logging accepts
log_levels == {"DEBUG", "INFO", "WARNING", "ERROR", "FATAL"}

\* the outcome of _ex_config_logging: sys.exit was called, or the value returned
LoggingExit == [exit |-> TRUE, file_path |-> NoneValue]
LoggingReturn(file_path) == [exit |-> FALSE, file_path |-> file_path]

\* lines 149-180 with the value of logging.file: a dictionary (new style),
\* a string (old style) or a value of another type; the key of the record
\* tells which
logging_file(options) ==
    IF HasKey(options, "dict")
    THEN IF ~Get(options.dict, "enabled", TRUE) THEN LoggingReturn(NoneValue)
         ELSE IF ~HasKey(options.dict, "path") \/ ~HasKey(options.dict, "level")
         THEN LoggingExit
         ELSE IF options.dict.level \notin log_levels THEN LoggingExit
         ELSE LoggingReturn(options.dict.path)
    ELSE IF HasKey(options, "str") THEN LoggingReturn(options.str)
    ELSE LoggingReturn(NoneValue)

\* _ex_config_logging: file_path is None unless logging.file gives a path
\* (the console options, lines 182-198, do not change what is returned)
_ex_config_logging(configuration) ==
    IF HasKey(configuration.logging, "file")
    THEN logging_file(configuration.logging.file)
    ELSE LoggingReturn(NoneValue)

\* sig_handler, lines 59-60: the dispositions after the handler has run
sig_handler_dispositions(dispositions) ==
    [s \in Signals |-> IF s \in {"SIGINT", "SIGTERM"} THEN "SIG_IGN" ELSE dispositions[s]]

\* the values logging.file may have in a configuration file
LoggingFileOptions ==
    {[str |-> "/var/log/king-phisher.log"], [int |-> 0]}
        \cup {[dict |-> e @@ q @@ l] :
                 e \in Optional("enabled", {FALSE}),
                 q \in Optional("path", {"/var/log/server.log"}),
                 l \in Optional("level", {"INFO", "LOUD"})}

\* the configurations ex_load_config may return: without a logging
\* section, or with one that may set logging.file
Configurations ==
    {EmptyDict} \cup {[logging |-> f] : f \in Optional("file", LoggingFileOptions)}

----------------------------------------------------------------------------
(* The requests the model serves *)

\* field names a client may give in a filter leaf or a sort entry: the
\* schema's names, a name with an underscore, a name of no column
name_user_id_snake == col_user_id
name_unknown == <<"x", "y">>
ClientFieldNames == GqlFieldNames \cup {name_user_id_snake, name_unknown}

\* the field, operator and value keys of a filter node
LeafParts ==
    {EmptyDict}
        \cup {[field |-> f, value |-> 1] : f \in ClientFieldNames}
        \cup {[field |-> to_camel_case(col_id), operator |-> o, value |-> 1] : o \in {"ne", "in"}}

\* a filter node: the leaf keys with the keys AND and OR, when they have children
Node(leaf, and_children, or_children) ==
    leaf @@ (IF and_children = <<>> THEN EmptyDict ELSE [AND |-> and_children])
         @@ (IF or_children = <<>> THEN EmptyDict ELSE [OR |-> or_children])

\* the leaf keys of a node that has children: none, or a field (which the
\* compiler rejects whatever the field is)
InnerParts == {EmptyDict, [field |-> to_camel_case(col_id), value |-> 1]}

\* the filter trees of exactly n nodes, and the lists of trees of n nodes in all
RECURSIVE FilterTrees(_), FilterLists(_)
FilterTrees(n) ==
    IF n = 0 THEN {}
    ELSE IF n = 1 THEN LeafParts
    ELSE UNION {
             {Node(leaf, a, o) : leaf \in InnerParts, a \in FilterLists(i),
                                 o \in FilterLists(n - 1 - i)} :
             i \in 0..(n - 1)}
FilterLists(n) ==
    IF n = 0 THEN {<<>>}
    ELSE UNION {
             {<<t>> \o l : t \in FilterTrees(k), l \in FilterLists(n - k)} :
             k \in 1..n}

\* a sort entry: a field and, optionally, a direction
SortEntries ==
    {[field |-> f] : f \in ClientFieldNames}
        \cup {[field |-> to_camel_case(col_id), direction |-> d] : d \in {"aesc", "desc", "up"}}

\* the sort lists of exactly n entries
RECURSIVE SortLists(_)
SortLists(n) ==
    IF n = 0 THEN {<<>>}
    ELSE {<<e>> \o l : e \in SortEntries, l \in SortLists(n - 1)}

\* the filter and sort arguments of a connection field with i filter nodes
\* and j sort entries; an argument of size 0 is not given
ConnectionArgs(i, j) ==
    {(IF i = 0 THEN EmptyDict ELSE [filter |-> f])
         @@ (IF j = 0 THEN EmptyDict ELSE [sort |-> s]) :
     f \in (IF i = 0 THEN {EmptyDict} ELSE FilterTrees(i)), s \in SortLists(j)}

AllConnectionArgs ==
    UNION {ConnectionArgs(p[1], p[2]) :
           p \in {q \in (0..MaxArgs) \X (0..MaxArgs) : q[1] + q[2] <= MaxArgs}}

\* what the inner resolver of a connection field may return: None, a lazy
\* query (a relationship's), a materialized sequence
Iterables ==
    {[kind |-> "none"],
     [kind |-> "query", query |-> RelationshipQuery],
     [kind |-> "list", items |-> <<"campaign1", "campaign2">>]}

\* the roots a field is resolved on: entity instances and the Database object
Roots == Instances \cup {"Database"}
\* keyword arguments of a resolved field
FieldKwargs == {EmptyDict, [first |-> 1]}
\* what the inner resolver of a field may return
FieldValues == {"value", "None"}

\* the keyword arguments of a single-entity lookup, as (field, value) items
LookupItems == {<<>>} \cup {<<<<col_id, v>>>> : v \in {0, 1, 2}}

----------------------------------------------------------------------------
(* The state machine: one action per request handler; a behaviour serves one
   request, starting from the state in which nothing was done yet *)

\* no request was served yet
InitRequest ==
    /\ req = [op |-> "none"]
    /\ result = [status |-> "none"]
    /\ accessCalls = <<>>
    /\ nextCalls = <<>>
    /\ dbOps = <<>>
    /\ geoipCalls = <<>>

\* __connection_types = {} and no thread is inside connection_factory
InitCache ==
    /\ connection_types = EmptyDict
    /\ callers = [t \in Threads |-> [pc |-> "idle"]]
    /\ types_created = {}

\* the server process enters main()
InitProcess ==
    /\ config = NotLoaded
    /\ pc = "main"
    /\ log_file = Unassigned
    /\ handlers = [s \in Signals |-> "SIG_DFL"]
    /\ shutdown_threads = <<>>

Init ==
    /\ InitRequest
    /\ InitCache
    /\ InitProcess

\* no request has been served yet
Idle == req.op = "none"

\* A field is resolved through the middleware chain.
Resolve ==
    /\ Idle
    /\ \E context \in Contexts, root \in Roots, field_name \in GqlFieldNames,
       kwargs \in FieldKwargs, next_value \in FieldValues :
        LET r == resolve(context, root, field_name, kwargs, next_value)
        IN  /\ req' = [op |-> "resolve", context |-> context, root |-> root,
                       field_name |-> field_name, kwargs |-> kwargs,
                       next_value |-> next_value]
            /\ result' = [status |-> "ok", value |-> r.value]
            /\ accessCalls' = r.calls
            /\ nextCalls' = r.next_calls
            /\ dbOps' = <<>>
            /\ UNCHANGED <<geoipCalls, factoryVars, mainVars>>

\* A connection field is resolved.
ConnectionResolve ==
    /\ Idle
    /\ \E context \in ClassContexts, iterable \in Iterables, kwargs \in AllConnectionArgs :
        LET r == connection_resolver(context, iterable, kwargs)
        IN  /\ req' = [op |-> "connection", context |-> context,
                       iterable |-> iterable, kwargs |-> kwargs]
            /\ result' = r.result
            /\ accessCalls' = r.calls
            /\ nextCalls' = <<>>
            /\ dbOps' = r.ops
            /\ UNCHANGED <<geoipCalls, factoryVars, mainVars>>

\* A single-entity field of Database is resolved: get_query(info, **kwargs).first()
ObjectLookup ==
    /\ Idle
    /\ \E context \in ClassContexts, items \in LookupItems :
        LET query == object_get_query(items)
        IN  /\ req' = [op |-> "lookup", context |-> context, items |-> items]
            /\ \/ \E row \in Selected(query) : result' = [status |-> "ok", row |-> <<row>>]
               \/ Selected(query) = {} /\ result' = [status |-> "ok", row |-> <<>>]
            /\ accessCalls' = <<>>
            /\ nextCalls' = <<>>
            /\ dbOps' = <<DbOp("first", query)>>
            /\ UNCHANGED <<geoipCalls, factoryVars, mainVars>>

Next ==
    \/ Resolve
    \/ ConnectionResolve
    \/ ObjectLookup

Spec == Init /\ [][Next]_vars

----------------------------------------------------------------------------
(* The connection-type cache under concurrent callers: one action per step
   of connection_factory, taken by any thread that is at that step *)

\* a thread calls connection_factory(node)
FactoryEnter(t) ==
    /\ callers[t].pc = "idle"
    /\ \E node \in NodeTypes : callers' = [callers EXCEPT ![t] = factory_enter(node)]
    /\ UNCHANGED <<connection_types, types_created, gqlVars, mainVars>>

FactoryCheck(t) ==
    /\ callers[t].pc = "check"
    /\ callers' = [callers EXCEPT ![t] = factory_check(@, connection_types)]
    /\ UNCHANGED <<connection_types, types_created, gqlVars, mainVars>>

FactoryRead(t) ==
    /\ callers[t].pc = "read"
    /\ callers' = [callers EXCEPT ![t] = factory_read(@, connection_types)]
    /\ UNCHANGED <<connection_types, types_created, gqlVars, mainVars>>

FactoryBuild(t) ==
    /\ callers[t].pc = "build"
    /\ callers' = [callers EXCEPT ![t] = factory_build(@, types_created)]
    /\ types_created' = types_created \cup {callers'[t].connection_type}
    /\ UNCHANGED <<connection_types, gqlVars, mainVars>>

FactoryStore(t) ==
    /\ callers[t].pc = "store"
    /\ connection_types' = factory_store(callers[t], connection_types)
    /\ callers' = [callers EXCEPT ![t] = factory_return(@)]
    /\ UNCHANGED <<types_created, gqlVars, mainVars>>

NextFactory ==
    \/ \E t \in Threads : FactoryEnter(t)
    \/ \E t \in Threads : FactoryCheck(t)
    \/ \E t \in Threads : FactoryRead(t)
    \/ \E t \in Threads : FactoryBuild(t)
    \/ \E t \in Threads : FactoryStore(t)

SpecFactory == Init /\ [][NextFactory]_vars

----------------------------------------------------------------------------
(* Pagination of a connection: one request with pagination arguments *)

\* the largest 'first' and 'last' of a request
MaxPage == 2

\* the cursors a client may send: those of the offsets around a page, and
\* a text that carries no offset
Cursors == {offset_to_cursor(n) : n \in (0 - 1)..(MaxPage + 1)}
               \cup {[prefix |-> CursorPrefix, is_int |-> FALSE, tail |-> 0]}

\* the pagination arguments of a request
PageArgs ==
    {f @@ l @@ b @@ a : f \in Optional("first", 0..MaxPage),
                        l \in Optional("last", 0..MaxPage),
                        b \in Optional("before", Cursors),
                        a \in Optional("after", Cursors)}

\* the filter and sort arguments sent along with them
PageFilterSort ==
    {f @@ o : f \in Optional("filter", {[field |-> to_camel_case(col_id), operator |-> "ne",
                                          value |-> 1]}),
              o \in Optional("sort", {<<[field |-> to_camel_case(col_id),
                                         direction |-> "desc"]>>})}

\* what the inner resolver returned: None, a relationship's query, or a
\* materialized list of up to MaxPage + 1 rows
PageRows == <<[id |-> 2, user_id |-> 0], [id |-> 0, user_id |-> 1],
              [id |-> 1, user_id |-> 1], [id |-> 0, user_id |-> 2]>>
PageIterables ==
    {[kind |-> "none"], [kind |-> "query", query |-> RelationshipQuery]}
        \cup {[kind |-> "list", items |-> [k \in 1..n |-> PageRows[((k - 1) % Len(PageRows)) + 1]]] :
                 n \in 0..(MaxPage + 1)}

\* the callers: no session, and a session that may not read id
PageContexts == {EmptyDict, ContextOf([props |-> {col_id}, rows |-> {}])}

\* A connection field is resolved with pagination arguments.
Paginate ==
    /\ Idle
    /\ \E context \in PageContexts, iterable \in PageIterables,
          page \in PageArgs, filter_sort \in PageFilterSort :
        LET r == connection_resolver(context, iterable, page @@ filter_sort)
        IN  /\ iterable.kind = "list" => (context = EmptyDict /\ filter_sort = EmptyDict)
            /\ req' = [op |-> "page", context |-> context, iterable |-> iterable,
                       kwargs |-> page @@ filter_sort]
            /\ result' = connection_with_edges(r.result, page @@ filter_sort)
            /\ accessCalls' = r.calls
            /\ nextCalls' = <<>>
            /\ dbOps' = r.ops
            /\ UNCHANGED <<geoipCalls, factoryVars, mainVars>>

SpecPage == Init /\ [][Paginate]_vars

----------------------------------------------------------------------------
(* Schema.execute and the root fields: one action per call *)

\* the longest middleware list a caller supplies
MaxMiddleware == 2
MiddlewareLists == UNION {[1..n -> {"m1", "m2"}] : n \in 0..MaxMiddleware}

\* the keyword arguments of a call of Schema.execute
ExecuteKwargs ==
    {c @@ m @@ v : c \in Optional("context_value", {EmptyDict, ContextOf([props |-> {}, rows |-> {}])}),
                   m \in Optional("middleware", MiddlewareLists),
                   v \in Optional("variable_values", {EmptyDict})}

\* the most plugins a registry holds
MaxPlugins == 3

\* the plugin registered under an identifier: its name need not follow the
\* order of the identifiers
PluginOf(id) == [name |-> <<"plugin", MaxPlugins - id>>, version |-> "1.0",
                 path |-> <<"plugins", id>>]

\* a plugin manager: iterating it yields its (identifier, plugin) pairs in
\* an order of its own
PluginManagers ==
    {[k \in DOMAIN ids |-> <<ids[k], PluginOf(ids[k])>>] :
        ids \in {seq \in UNION {[1..n -> 1..MaxPlugins] : n \in 0..MaxPlugins} :
                    \A i \in DOMAIN seq, j \in DOMAIN seq : seq[i] = seq[j] => i = j}}

\* the texts given as an IP address: addresses, the empty text, another text
IpTexts == PrivateAddresses \cup PublicAddresses \cup {"", "bogus"}

\* the columns the entity geoloc fields read: DeaddropConnection.ip and
\* Visit.ip (visitor_geoloc), Message.opener_ip (opener_geoloc)
GeolocColumns == {"ip", "opener_ip"}

\* Schema.execute is called.
Execute ==
    /\ Idle
    /\ \E module \in Modules, kwargs \in ExecuteKwargs :
        /\ req' = [op |-> "execute", module |-> module, kwargs |-> kwargs]
        /\ result' = [status |-> "ok", handed |-> execute(kwargs)]
    /\ UNCHANGED <<accessCalls, nextCalls, dbOps, geoipCalls, factoryVars, mainVars>>

\* The plugins field of the root query is resolved, with its total.
ResolvePlugins ==
    /\ Idle
    /\ \E module \in Modules,
          context \in Optional("plugin_manager", PluginManagers) :
        /\ req' = [op |-> "plugins", module |-> module, context |-> context]
        /\ result' = plugins_connection(module, context)
    /\ UNCHANGED <<accessCalls, nextCalls, dbOps, geoipCalls, factoryVars, mainVars>>

\* The geoloc field of the root query is resolved.
ResolveGeoloc ==
    /\ Idle
    /\ \E module \in Modules, kwargs \in Optional("ip", IpTexts \cup {NoneValue}),
          database \in SUBSET PublicAddresses :
        LET r == resolve_geoloc(kwargs, database)
        IN  /\ req' = [op |-> "geoloc", module |-> module, kwargs |-> kwargs,
                       database |-> database]
            /\ result' = [status |-> r.status, value |-> r.value]
            /\ geoipCalls' = r.lookups
    /\ UNCHANGED <<accessCalls, nextCalls, dbOps, factoryVars, mainVars>>

\* The visitor_geoloc or opener_geoloc field of an entity is resolved.
ResolveEntityGeoloc ==
    /\ Idle
    /\ \E column \in GeolocColumns, ip \in IpTexts \cup {NoneValue},
          database \in SUBSET PublicAddresses :
        LET row == [c \in {column} |-> ip]
            r == resolve_entity_geoloc(row, column, database)
        IN  /\ req' = [op |-> "entity_geoloc", row |-> row, column |-> column,
                       database |-> database]
            /\ result' = [status |-> r.status, value |-> r.value]
            /\ geoipCalls' = r.lookups
    /\ UNCHANGED <<accessCalls, nextCalls, dbOps, factoryVars, mainVars>>

NextRoot ==
    \/ Execute
    \/ ResolvePlugins
    \/ ResolveGeoloc
    \/ ResolveEntityGeoloc

SpecRoot == Init /\ [][NextRoot]_vars

----------------------------------------------------------------------------
(* The filter compiler over all six operators: one request per filter tree *)

\* the most nodes a filter tree has
MaxFilterNodes == 3

\* a leaf on a column: with one of the six operators, or with none
CleanLeaves ==
    {[field |-> f, value |-> 1] : f \in GqlFieldNames}
        \cup {[field |-> f, operator |-> o, value |-> 1] :
                 f \in GqlFieldNames, o \in FilterOperators}

\* the trees of exactly n nodes in which every node populates exactly one
\* of AND, OR and field, and the lists of such trees of n nodes in all
RECURSIVE CleanTrees(_), CleanLists(_)
CleanTrees(n) ==
    IF n = 0 THEN {}
    ELSE IF n = 1 THEN CleanLeaves
    ELSE {[AND |-> l] : l \in CleanLists(n - 1)} \cup {[OR |-> l] : l \in CleanLists(n - 1)}
CleanLists(n) ==
    IF n = 0 THEN {<<>>}
    ELSE UNION {
             {<<t>> \o l : t \in CleanTrees(k), l \in CleanLists(n - k)} :
             k \in 1..n}

\* the callers: no session, and a session that may read every column
FilterContexts == {EmptyDict, ContextOf([props |-> {}, rows |-> {}])}

\* A filter argument is compiled onto the model's default query.
CompileFilter ==
    /\ Idle
    /\ \E context \in FilterContexts,
          gql_filter \in UNION {CleanTrees(n) : n \in 1..MaxFilterNodes} :
        LET r == _query_filter(context, DefaultQuery, gql_filter)
        IN  /\ req' = [op |-> "filter", context |-> context, filter |-> gql_filter]
            /\ result' = IF r.err = "" THEN [status |-> "ok", query |-> r.query]
                         ELSE [status |-> "error", error |-> r.err]
            /\ accessCalls' = r.calls
    /\ UNCHANGED <<nextCalls, dbOps, geoipCalls, factoryVars, mainVars>>

SpecFilter == Init /\ [][CompileFilter]_vars

----------------------------------------------------------------------------
(* The server process: the steps of main() and build_and_run(), and the
   delivery of signals to the running server *)

\* the most shutdown threads the deliveries of a behaviour start
MaxSignals == 3

\* lines 205-238: the arguments are parsed and the configuration loaded;
\* main returns early when the interpreter is too old, when the user is not
\* root, after --verify-config and after --update-geoip-db
LoadConfig ==
    /\ pc = "main"
    /\ \/ pc' = "exit" /\ UNCHANGED config
       \/ \E c \in Configurations : config' = c /\ pc' = "exit"
       \/ \E c \in Configurations : config' = c /\ pc' = "logging"
    /\ UNCHANGED <<log_file, handlers, shutdown_threads, gqlVars, factoryVars>>

\* lines 241-243
SetupLogging ==
    /\ pc = "logging"
    /\ IF has_section(config, "logging")
       THEN IF _ex_config_logging(config).exit
            THEN pc' = "exit" /\ UNCHANGED log_file
            ELSE pc' = "plugins" /\ log_file' = _ex_config_logging(config).file_path
       ELSE pc' = "plugins" /\ UNCHANGED log_file
    /\ UNCHANGED <<config, handlers, shutdown_threads, gqlVars, factoryVars>>

\* lines 246-253: the plugin manager is built, or main returns EX_SOFTWARE
InitPlugins ==
    /\ pc = "plugins"
    /\ pc' \in {"call", "exit"}
    /\ UNCHANGED <<config, log_file, handlers, shutdown_threads, gqlVars, factoryVars>>

\* line 255: the arguments of build_and_run are evaluated; reading a local
\* variable that was never assigned raises UnboundLocalError
CallBuildAndRun ==
    /\ pc = "call"
    /\ pc' = IF log_file = Unassigned THEN "UnboundLocalError" ELSE "build_and_run"
    /\ UNCHANGED <<config, log_file, handlers, shutdown_threads, gqlVars, factoryVars>>

\* lines 64-123: fork, build the server, drop privileges; the parent of the
\* fork exits, and a failure returns an exit status
BuildServer ==
    /\ pc = "build_and_run"
    /\ pc' \in {"install", "exit"}
    /\ UNCHANGED <<config, log_file, handlers, shutdown_threads, gqlVars, factoryVars>>

\* lines 125-130: sig_handler is installed for the three signals and the
\* server starts to serve
InstallHandlers ==
    /\ pc = "install"
    /\ handlers' = [s \in Signals |-> "sig_handler"]
    /\ pc' = "serving"
    /\ UNCHANGED <<config, log_file, shutdown_threads, gqlVars, factoryVars>>

\* A signal is delivered to the server: sig_handler runs when it is the
\* signal's disposition (lines 58-62), and nothing happens when the signal
\* is ignored.
Deliver(sig) ==
    /\ pc \in {"serving", "stopping"}
    /\ IF handlers[sig] = "sig_handler"
       THEN /\ Len(shutdown_threads) < MaxSignals
            /\ handlers' = sig_handler_dispositions(handlers)
            /\ shutdown_threads' = Append(shutdown_threads, sig)
       ELSE UNCHANGED <<handlers, shutdown_threads>>
    /\ UNCHANGED <<config, pc, log_file, gqlVars, factoryVars>>

\* lines 130-133: a shutdown thread has stopped the server and
\* serve_forever returns
ServeReturns ==
    /\ pc = "serving"
    /\ shutdown_threads # <<>>
    /\ pc' = "stopping"
    /\ UNCHANGED <<config, log_file, handlers, shutdown_threads, gqlVars, factoryVars>>

\* lines 133-134 and 256-258: shutdown, and main returns the status
Finish ==
    /\ pc = "stopping"
    /\ pc' = "exit"
    /\ UNCHANGED <<config, log_file, handlers, shutdown_threads, gqlVars, factoryVars>>

NextMain ==
    \/ LoadConfig
    \/ SetupLogging
    \/ InitPlugins
    \/ CallBuildAndRun
    \/ BuildServer
    \/ InstallHandlers
    \/ \E sig \in Signals : Deliver(sig)
    \/ ServeReturns
    \/ Finish

SpecMain == Init /\ [][NextMain]_vars

----------------------------------------------------------------------------
(* Helpers of the properties: reading a request and its filter tree *)

Range(seq) == {seq[k] : k \in 1..Len(seq)}

\* the children of a filter node, and all the nodes of a filter tree
Children(node) == Range(Get(node, "AND", <<>>)) \cup Range(Get(node, "OR", <<>>))
RECURSIVE Nodes(_)
Nodes(tree) == {tree} \cup UNION {Nodes(c) : c \in Children(tree)}

\* the nodes below the root
InnerNodes(tree) == UNION {Nodes(c) : c \in Children(tree)}

\* how many of the keys AND, OR and field a node populates
Populated(node) == {key \in {"AND", "OR", "field"} : Truthy(node, key)}
\* a leaf: a node that populates field
IsLeaf(node) == Truthy(node, "field")

\* a field name that is no column of the model in GraphQL naming
InvalidField(name) == HasUnderscore(name) \/ parse_case_camel_to_snake(name) \notin columns

\* the request is a connection whose inner resolver gave no materialized list
CompilesQuery == req.op = "connection" /\ req.iterable.kind # "list"
HasSession == HasKey(req.context, "rpc_session")
FilterGiven == CompilesQuery /\ Truthy(req.kwargs, "filter")
SortGiven == CompilesQuery /\ Truthy(req.kwargs, "sort")
FilterNodes == IF FilterGiven THEN Nodes(req.kwargs.filter) ELSE {}
SortEntriesGiven == IF SortGiven THEN Range(req.kwargs.sort) ELSE {}

\* class-level read access of the caller to a column
MayRead(context, col) ==
    HasKey(context, "rpc_session")
        => session_has_read_prop_access(context.rpc_session, col, NoInstance)

MalformedErrors ==
    {"mutually exclusive", "invalid operator", "invalid filter field",
     "invalid sort field", "invalid sort direction"}

----------------------------------------------------------------------------
(* Properties *)

\* C1: every client-named column in the WHERE predicates or the ORDER BY of
\* a query executed against the database (for a connection's filter and
\* sort, or a single-entity lookup) is a column the caller session has
\* class-level read access to.
C1_OnlyAuthorizedColumnsReachDatabase ==
    \A k \in 1..Len(dbOps) :
        \A col \in QueryColumns(dbOps[k].query) : MayRead(req.context, col)

\* C1 restricted to connections: the columns of the compiled filter and
\* sort are readable by the session.
C1_ConnectionColumnsAuthorized ==
    req.op = "connection" => C1_OnlyAuthorizedColumnsReachDatabase

\* C2: the middleware returns null without invoking the inner resolver when
\* the root is an entity instance and the session denies the requested field
\* on it; otherwise it invokes the inner resolver exactly once with the same
\* root, field and arguments and returns its result unchanged.
C2_Denied ==
    /\ req.op = "resolve"
    /\ IsEntity(req.root)
    /\ HasSession
    /\ ~session_has_read_prop_access(req.context.rpc_session, req.field_name, req.root)

C2_MiddlewareGate ==
    req.op = "resolve" =>
        IF C2_Denied
        THEN result.value = NoneValue /\ nextCalls = <<>>
        ELSE /\ nextCalls = <<[root |-> req.root, field_name |-> req.field_name,
                               kwargs |-> req.kwargs]>>
             /\ result.value = req.next_value

C2_Witness ==
    /\ C2_Denied
    /\ req.next_value = "value"
    /\ result.value = NoneValue
    /\ nextCalls = <<>>

\* C3: a filter tree in which some node, at any depth, populates two or more
\* of AND, OR and field does not compile: a malformed-filter error is raised
\* (the mutual-exclusion error, when nothing else in the tree is malformed)
\* and no query is executed.
C3_Clash == \E node \in FilterNodes : Cardinality(Populated(node)) >= 2
C3_OtherwiseWellFormed ==
    \A node \in FilterNodes :
        IsLeaf(node) => /\ ~InvalidField(node.field)
                        /\ Get(node, "operator", "eq") \in FilterOperators

C3_MutualExclusion ==
    C3_Clash =>
        /\ result.status = "error"
        /\ result.error \in MalformedErrors
        /\ C3_OtherwiseWellFormed => result.error = "mutually exclusive"
        /\ dbOps = <<>>

C3_Witness ==
    /\ FilterGiven
    /\ \E node \in InnerNodes(req.kwargs.filter) : Cardinality(Populated(node)) >= 2
    /\ Cardinality(Populated(req.kwargs.filter)) = 1
    /\ result.status = "error"
    /\ result.error = "mutually exclusive"

\* C4: a query on which count() or a slice is executed names only columns of
\* model.columns(), and a filter leaf or sort entry whose field has an
\* underscore or translates to no column makes the compilation raise before
\* any database operation.
C4_InvalidFieldGiven ==
    \/ \E node \in FilterNodes : IsLeaf(node) /\ InvalidField(node.field)
    \/ \E entry \in SortEntriesGiven : InvalidField(entry.field)

C4_OnlyModelColumns ==
    /\ \A k \in 1..Len(dbOps) : QueryColumns(dbOps[k].query) \subseteq columns
    /\ C4_InvalidFieldGiven => result.status = "error" /\ dbOps = <<>>

C4_Witness ==
    /\ FilterGiven
    /\ \E node \in InnerNodes(req.kwargs.filter) :
           IsLeaf(node) /\ node.field = name_user_id_snake
    /\ result.status = "error"
    /\ result.error = "invalid filter field"
    /\ dbOps = <<>>

\* C5: under a session that denies class-level read access to column C, a
\* filter that compiles selects exactly the rows selected by the same tree
\* with every leaf on C removed (at any depth under AND and OR nodes).
IsLeafOn(node, col) ==
    /\ Populated(node) = {"field"}
    /\ ~HasUnderscore(node.field)
    /\ parse_case_camel_to_snake(node.field) = col

RECURSIVE WithoutLeavesOn(_, _)
WithoutLeavesOn(node, col) ==
    LET keep(child) == ~IsLeafOn(child, col)
        strip(children) ==
            LET kept == SelectSeq(children, keep)
            IN  [k \in 1..Len(kept) |-> WithoutLeavesOn(kept[k], col)]
    IN  [key \in DOMAIN node |->
            IF key \in {"AND", "OR"} THEN strip(node[key]) ELSE node[key]]

\* the filter argument without its leaves on a column
FilterWithout(gql_filter, col) ==
    IF IsLeafOn(gql_filter, col) THEN EmptyDict ELSE WithoutLeavesOn(gql_filter, col)

C5_DeniedFilterIsNoPredicate ==
    (FilterGiven /\ HasSession /\ result.status = "ok") =>
        \A col \in req.context.rpc_session.props :
            LET without == connection_resolver(req.context, req.iterable,
                               [req.kwargs EXCEPT !.filter = FilterWithout(@, col)])
            IN  /\ without.result.status = "ok"
                /\ Selected(without.result.iterable.query)
                       = Selected(result.iterable.query)

\* a session that denies nothing
PermitAll == ContextOf([props |-> {}, rows |-> {}])

C5_Witness ==
    /\ FilterGiven
    /\ HasSession
    /\ result.status = "ok"
    /\ \E col \in req.context.rpc_session.props :
           \E node \in InnerNodes(req.kwargs.filter) :
               /\ Truthy(node, "OR")
               /\ \E child \in Range(node.OR) : IsLeafOn(child, col)
    /\ Truthy(req.kwargs.filter, "AND")
    /\ Selected(result.iterable.query)
           # Selected(connection_resolver(PermitAll, req.iterable, req.kwargs)
                          .result.iterable.query)

\* C6: malformed filter or sort input always raises, whatever the session:
\* a leaf with an operator outside the six, a leaf or sort entry whose field
\* has an underscore or is no column, a sort entry whose direction is
\* neither 'aesc' nor 'desc'.
C6_Malformed ==
    \/ \E node \in FilterNodes :
           IsLeaf(node) /\ Get(node, "operator", "eq") \notin FilterOperators
    \/ C4_InvalidFieldGiven
    \/ \E entry \in SortEntriesGiven :
           Get(entry, "direction", "aesc") \notin {"aesc", "desc"}

C6_MalformedInputRaises ==
    (CompilesQuery /\ C6_Malformed) => result.status = "error"

\* C7: a denial never produces an error: a request that completes without
\* error under a session that permits every column completes without error
\* under every session.
C7_DenialNeverErrors ==
    /\ req.op = "resolve" => result.status = "ok"
    /\ (CompilesQuery /\ HasSession
            /\ connection_resolver(PermitAll, req.iterable, req.kwargs).result.status = "ok")
           => result.status = "ok"

C7_Witness ==
    /\ FilterGiven
    /\ SortGiven
    /\ HasSession
    /\ \E col \in req.context.rpc_session.props :
           /\ \E node \in FilterNodes : IsLeafOn(node, col)
           /\ \E entry \in SortEntriesGiven : parse_case_camel_to_snake(entry.field) = col
    /\ result.status = "ok"

\* C8: without a session the middleware invokes the inner resolver and
\* returns its value, every leaf of a filter that compiles contributes its
\* predicate, no sort entry is skipped, and the permission predicate is
\* never called.
RECURSIVE SumOver(_, _)
SumOver(f, set) ==
    IF set = {} THEN 0
    ELSE LET x == CHOOSE y \in set : TRUE IN f[x] + SumOver(f, set \ {x})

RECURSIVE LeafCount(_)
LeafCount(node) ==
    LET below(key) ==
            LET children == Get(node, key, <<>>)
            IN  SumOver([k \in 1..Len(children) |-> LeafCount(children[k])],
                        1..Len(children))
    IN  (IF IsLeaf(node) THEN 1 ELSE 0) + below("AND") + below("OR")

RECURSIVE ComparisonCount(_)
ComparisonCount(e) ==
    CASE e.kind = "cmp" -> 1
      [] e.kind \in {"and", "or"} ->
             SumOver([k \in 1..Len(e.clauses) |-> ComparisonCount(e.clauses[k])],
                     1..Len(e.clauses))
      [] OTHER -> 0

QueryComparisonCount(query) ==
    SumOver([k \in 1..Len(query.criteria) |-> ComparisonCount(query.criteria[k])],
            1..Len(query.criteria))

C8_NoSessionIsTransparent ==
    (req.op \in {"resolve", "connection"} /\ ~HasSession) =>
        /\ accessCalls = <<>>
        /\ req.op = "resolve" =>
               /\ nextCalls = <<[root |-> req.root, field_name |-> req.field_name,
                                 kwargs |-> req.kwargs]>>
               /\ result.value = req.next_value
        /\ (CompilesQuery /\ result.status = "ok") =>
               /\ QueryComparisonCount(result.iterable.query)
                      = (IF FilterGiven THEN LeafCount(req.kwargs.filter) ELSE 0)
               /\ Len(result.iterable.query.order)
                      = (IF SortGiven THEN Len(req.kwargs.sort) ELSE 0)

C8_Witness ==
    /\ FilterGiven
    /\ SortGiven
    /\ ~HasSession
    /\ result.status = "ok"
    /\ InnerNodes(req.kwargs.filter) # {}
    /\ LeafCount(req.kwargs.filter) = 1
    /\ QueryComparisonCount(result.iterable.query) = 1
    /\ Len(result.iterable.query.order) = 1
    /\ accessCalls = <<>>

\* C9: every call made to session_has_read_prop_access (by the middleware,
\* the filter compiler and the sort compiler) passes the field name in
\* database naming: a snake_case column name of the model, never the
\* camelCase GraphQL name.
C9_PredicateGetsDatabaseNames ==
    \A k \in 1..Len(accessCalls) : accessCalls[k].field_name \in columns

\* C9 for the filter and sort compilers alone
C9_CompilerPassesDatabaseNames ==
    req.op = "connection" => C9_PredicateGetsDatabaseNames

\* C10: the sort compiler appends one ORDER BY term for each entry whose
\* column the session may read, in the order of the list, ascending for
\* 'aesc' or no direction and descending for 'desc', and nothing for the
\* entries whose column the session may not read.
ExpectedOrder(context, gql_sort) ==
    LET readable(entry) == MayRead(context, parse_case_camel_to_snake(entry.field))
        kept == SelectSeq(gql_sort, readable)
    IN  [k \in 1..Len(kept) |->
            [col  |-> parse_case_camel_to_snake(kept[k].field),
             desc |-> ~(Get(kept[k], "direction", "aesc") = "aesc")]]

C10_OrderByPerReadableEntry ==
    (CompilesQuery /\ result.status = "ok") =>
        result.iterable.query.order
            = ExpectedOrder(req.context, Get(req.kwargs, "sort", <<>>))

C10_Witness ==
    /\ SortGiven
    /\ HasSession
    /\ result.status = "ok"
    /\ Len(req.kwargs.sort) = 3
    /\ Len(result.iterable.query.order) = 2
    /\ ~result.iterable.query.order[1].desc
    /\ result.iterable.query.order[2].desc
    /\ result.iterable.query.order[1].col # parse_case_camel_to_snake(req.kwargs.sort[1].field)

----------------------------------------------------------------------------
(* C11: the connection-type cache *)

\* the callers that have returned from connection_factory
Returned == {t \in Threads : callers[t].pc = "done"}

\* C11: whatever the interleaving of the callers, at most one connection type
\* is ever built for a name, the cache holds it, and every caller that has
\* returned got the type the cache holds for its name.
\* Violated: two callers that both pass the test of line 176 before either
\* stores each build a type; the second store overwrites the first.
C11_SingleConnectionType ==
    /\ \A a \in types_created, b \in types_created : a.name = b.name => a = b
    /\ \A t \in Returned :
           /\ HasKey(connection_types, callers[t].name)
           /\ callers[t].returned = connection_types[callers[t].name]

----------------------------------------------------------------------------
(* C12: the dispatch of the connection resolver *)

\* the query the filter and the sort are applied to
BaseQuery == IF req.iterable.kind = "none" THEN DefaultQuery ELSE req.iterable.query

\* the columns of the sort entries, in the order of the list
SortColumns ==
    LET gql_sort == Get(req.kwargs, "sort", <<>>)
    IN  [k \in 1..Len(gql_sort) |-> parse_case_camel_to_snake(gql_sort[k].field)]

\* C12: a materialized sequence is used as is: no permission call, no
\* database operation, no error whatever the filter and sort arguments are,
\* total its length.  For None (the model's default query) and for a lazy
\* query (that query) the connection's query is the base query with at most
\* one criterion added, the compiled filter, and the ORDER BY terms of the
\* sort; the permission calls of the filter's leaves all come before those
\* of the sort entries; count() and the slice run on that one query.
C12_Dispatch ==
    req.op = "connection" =>
        IF req.iterable.kind = "list"
        THEN /\ result = [status |-> "ok", total |-> Len(req.iterable.items),
                          iterable |-> req.iterable]
             /\ accessCalls = <<>>
             /\ dbOps = <<>>
        ELSE result.status = "ok" =>
             LET query == result.iterable.query
                 compiled == IF FilterGiven
                             THEN __query_filter(req.context, req.kwargs.filter).sql
                             ELSE NoneSql
                 leaves == IF FilterGiven THEN LeafCount(req.kwargs.filter) ELSE 0
             IN  /\ query.base = BaseQuery.base
                 /\ query.criteria = BaseQuery.criteria
                        \o (IF compiled = NoneSql THEN <<>> ELSE <<compiled>>)
                 /\ Len(query.order) <= Len(SortColumns)
                 /\ HasSession =>
                        /\ Len(accessCalls) = leaves + Len(SortColumns)
                        /\ \A k \in 1..Len(SortColumns) :
                               accessCalls[leaves + k].field_name = SortColumns[k]
                 /\ dbOps = <<DbOp("count", query), DbOp("slice", query)>>
                 /\ result.total = Cardinality(Selected(query))

C12_Witness ==
    /\ req.op = "connection"
    /\ req.iterable.kind = "query"
    /\ FilterGiven
    /\ SortGiven
    /\ HasSession
    /\ result.status = "ok"
    /\ result.iterable.query.base = "relationship"
    /\ Len(result.iterable.query.criteria) = 1
    /\ Len(result.iterable.query.order) = 1
    /\ Len(accessCalls) = 3
    /\ accessCalls[1].field_name # accessCalls[3].field_name

----------------------------------------------------------------------------
(* C13: total and the relay slice *)

\* Relay's reading of the pagination arguments over the positions 0..total-1:
\* drop the positions up to the 'after' cursor and from the 'before' cursor
\* on, keep the first 'first' of what is left, then the last 'last' of that
RelayPositions(total, args) ==
    LET cut == {p \in 0..(total - 1) :
                   /\ (HasKey(args, "after") /\ args.after.is_int) => p > args.after.tail
                   /\ (HasKey(args, "before") /\ args.before.is_int) => p < args.before.tail}
        head == IF HasKey(args, "first")
                THEN {p \in cut : Cardinality({q \in cut : q < p}) < args.first}
                ELSE cut
    IN  IF HasKey(args, "last")
        THEN {p \in head : Cardinality({q \in head : q > p}) < args.last}
        ELSE head

\* the request without its pagination arguments
Unpaged(kwargs) == [k \in DOMAIN kwargs \cap {"filter", "sort"} |-> kwargs[k]]

----------------------------------------------------------------------------
(* C14: what Schema.execute hands to the GraphQL runtime *)

\* C14: the middleware handed on is the authorization middleware followed
\* by the caller's middleware in their order (by nothing when the caller
\* supplied none); context_value is present, the caller's when supplied and
\* an empty mapping otherwise; the other arguments are handed on unchanged.
C14_AuthorizationMiddlewareFirst ==
    req.op = "execute" =>
        /\ result.handed.middleware
               = <<"AuthorizationMiddleware">> \o Get(req.kwargs, "middleware", <<>>)
        /\ HasKey(result.handed, "context_value")
        /\ result.handed.context_value = Get(req.kwargs, "context_value", EmptyDict)
        /\ \A k \in DOMAIN req.kwargs \ {"middleware"} : result.handed[k] = req.kwargs[k]

C14_Witness ==
    /\ req.op = "execute"
    /\ req.module = "graphql/schema.py"
    /\ ~HasKey(req.kwargs, "context_value")
    /\ HasKey(req.kwargs, "middleware")
    /\ req.kwargs.middleware = <<"m2", "m1">>
    /\ result.handed.middleware = <<"AuthorizationMiddleware", "m2", "m1">>
    /\ result.handed.context_value = EmptyDict

----------------------------------------------------------------------------
(* C15: the plugins listing *)

\* the plugin manager of the request
Registry == Get(req.context, "plugin_manager", <<>>)

\* C15: in either module the plugins field resolves to one projection per
\* registry entry, in ascending order of identifier, with total the size
\* of the registry.
\* Violated in graphql/schema.py, whose resolve_plugins names Plugin, a name
\* that module does not bind: with a registry that is not empty it raises.
C15_PluginsListing ==
    req.op = "plugins" =>
        /\ result.status = "ok"
        /\ result.total = Len(Registry)
        /\ Len(result.edges) = Len(Registry)
        /\ \A k \in 1..Len(Registry) :
               \E p \in 1..Len(result.edges) :
                   /\ result.edges[p] = from_plugin(Registry[k][2])
                   /\ p = 1 + Cardinality({j \in 1..Len(Registry) :
                                               Registry[j][1] < Registry[k][1]})

\* C15 for the Query of graphql.py alone
C15_PluginsListingOfGraphqlPy ==
    (req.op = "plugins" /\ req.module = "graphql.py") => C15_PluginsListing

----------------------------------------------------------------------------
(* C16: the GeoIP lookup *)

\* the text the geoloc resolver of the request is given (None when missing)
GeolocIp ==
    IF req.op = "geoloc" THEN Get(req.kwargs, "ip", NoneValue)
    ELSE req.row[req.column]

\* C16: geoip.lookup is not called and the field is null when the IP is
\* missing, empty or private; the field is null when the lookup finds
\* nothing, and the GeoLocation of the lookup result otherwise.
\* Violated by the root field geoloc(ip: ""): the empty text is handed to
\* ipaddress.ip_address, which raises.
C16_GeolocResolution ==
    req.op \in {"geoloc", "entity_geoloc"} =>
        IF GeolocIp \in {NoneValue, ""} \cup PrivateAddresses
        THEN result = [status |-> "ok", value |-> NoneValue] /\ geoipCalls = <<>>
        ELSE GeolocIp \in PublicAddresses =>
                /\ geoipCalls = <<GeolocIp>>
                /\ result.status = "ok"
                /\ result.value = (IF GeolocIp \in req.database
                                   THEN [GeoLocation |-> GeolocIp] ELSE NoneValue)

\* C16, the safety part: geoip.lookup is only ever called with a public
\* address, and the entity fields satisfy the whole statement.
C16_LookupOnlyForPublicAddresses ==
    /\ \A k \in 1..Len(geoipCalls) : geoipCalls[k] \in PublicAddresses
    /\ req.op = "entity_geoloc" => C16_GeolocResolution

----------------------------------------------------------------------------
(* C17: what a compiled filter selects *)

\* the reference reading of a filter tree on a row
RECURSIVE Reads(_, _)
Reads(node, row) ==
    IF HasKey(node, "AND") THEN \A k \in 1..Len(node.AND) : Reads(node.AND[k], row)
    ELSE IF HasKey(node, "OR") THEN \E k \in 1..Len(node.OR) : Reads(node.OR[k], row)
    ELSE LET x == ColumnValue(row, parse_case_camel_to_snake(node.field))
         IN  CASE ~HasKey(node, "operator") -> x = node.value
               [] node.operator = "eq" -> x = node.value
               [] node.operator = "ne" -> x # node.value
               [] node.operator = "lt" -> x < node.value
               [] node.operator = "le" -> x <= node.value
               [] node.operator = "gt" -> x > node.value
               [] node.operator = "ge" -> x >= node.value

\* C17: a tree in which every node populates exactly one of AND, OR and
\* field compiles, under a caller that may read every column, to a filter
\* that selects exactly the rows its reference reading accepts: a leaf is
\* op(column, value) with eq when no operator is given, AND is the
\* conjunction of its children and OR their disjunction.
C17_CompiledFilterReadsAsTree ==
    req.op = "filter" =>
        /\ result.status = "ok"
        /\ Len(result.query.criteria) = 1
        /\ \A row \in Table : row \in Selected(result.query) <=> Reads(req.filter, row)

C17_Witness ==
    /\ req.op = "filter"
    /\ HasKey(req.context, "rpc_session")
    /\ HasKey(req.filter, "OR")
    /\ Len(req.filter.OR) = 2
    /\ HasKey(req.filter.OR[1], "operator") /\ req.filter.OR[1].operator = "lt"
    /\ ~HasKey(req.filter.OR[2], "operator")
    /\ req.filter.OR[1].field # req.filter.OR[2].field
    /\ result.status = "ok"
    /\ Cardinality(Selected(result.query)) = 5

----------------------------------------------------------------------------
(* C18: log_file at the call of build_and_run *)

\* C18: whenever main() evaluates the call of build_and_run, log_file has
\* been assigned a path or None, with or without a 'logging' section.
\* Violated without a 'logging' section: line 242 is the only assignment.
C18_LogFileAssignedAtCall ==
    pc \in {"call", "UnboundLocalError", "build_and_run"} => log_file # Unassigned

\* C18 for the configurations that have a 'logging' section
C18_AssignedWithLoggingSection ==
    (pc \in {"call", "UnboundLocalError", "build_and_run"} /\ has_section(config, "logging"))
        => log_file # Unassigned

----------------------------------------------------------------------------
(* C19: the threads sig_handler starts *)

\* C19: whatever signals are delivered to the running server, sig_handler
\* starts at most one thread that invokes server.shutdown.
\* Violated by SIGHUP twice: the handler sets SIGINT and SIGTERM to SIG_IGN
\* and leaves itself installed for SIGHUP.
C19_AtMostOneShutdownThread == Len(shutdown_threads) <= 1

\* C19 for SIGINT and SIGTERM: at most one thread is started by them
C19_AtMostOneThreadFromIntOrTerm ==
    Cardinality({k \in 1..Len(shutdown_threads) :
                    shutdown_threads[k] \in {"SIGINT", "SIGTERM"}}) <= 1

====
